---- MODULE Spec2Model ----
(***************************************************************************)
(* Model of the PDF-to-JSON question builder (EditorScreen.tsx).           *)
(*                                                                         *)
(* Strings are sequences of one-character strings, so that trim(), length  *)
(* and the regular expressions of the source are computed on characters.   *)
(* Characters outside ASCII are written by name: "bullet" is U+2022, and   *)
(* the emoji tags of parseQuizText are "Qmark", "Radio", "Check", "Bulb",  *)
(* "Memo", "Warn" and "Cross".                                             *)
(***************************************************************************)
EXTENDS Integers, Sequences, FiniteSets, TLC

VARIABLES
  currentQuestion,  \* JSONBuilder prop: the draft QuestionData
  questionsArray,   \* JSONBuilder prop: the committed QuestionData list
  lastOp,           \* name of the JSONBuilder handler that ran last
  download,         \* content handed to the download link by the last exportJSON
  isLoading,        \* EditorScreen state: the loading flag
  textLines,        \* EditorScreen state: the lines shown for dragging
  pdf,              \* the document behind the file: what MuPDF does on each call
  pc,               \* position of extractTextFromPDF
  pageNum,          \* loop variable of extractTextFromPDF
  allTextLines,     \* local accumulator of extractTextFromPDF
  text,             \* argument of a direct call of parseQuizText
  parser,           \* which parseQuizText is called: "chunks" or "pattern"
  lines,            \* value returned by that call
  previous          \* value returned by the call before it

builderVars == <<currentQuestion, questionsArray, lastOp, download>>
extractVars == <<isLoading, textLines, pdf, pc, pageNum, allTextLines>>
parseVars == <<text, parser, lines, previous>>
vars == <<currentQuestion, questionsArray, lastOp, download,
          isLoading, textLines, pdf, pc, pageNum, allTextLines, text, parser, lines,
          previous>>

----------------------------------------------------------------------------
(* Bounds *)

MaxCommitted == 2
MaxPages == 2
MaxPieces == 3

----------------------------------------------------------------------------
(* Strings *)

Space == {" ", "\n", "\t", "\r", "\f"}

RECURSIVE TrimStart(_)
TrimStart(s) ==
  IF s = <<>> THEN <<>>
  ELSE IF Head(s) \in Space THEN TrimStart(Tail(s)) ELSE s

RECURSIVE TrimEnd(_)
TrimEnd(s) ==
  IF s = <<>> THEN <<>>
  ELSE IF s[Len(s)] \in Space THEN TrimEnd(SubSeq(s, 1, Len(s) - 1)) ELSE s

\* String.prototype.trim
Trim(s) == TrimEnd(TrimStart(s))

\* JavaScript truthiness of a string: only '' is falsy
Truthy(s) == s # <<>>

----------------------------------------------------------------------------
(* Question assembly: JSONBuilder *)

Letters == <<"A", "B", "C", "D">>

\* letters picked in the answer select: the default and one other
AnswerChoices == {Letters[1], Letters[3]}

\* texts a drop can carry into a slot
DropTexts == {<<>>, <<" ">>, <<"x">>}

EmptyQuestion(n) ==
  [questionNumber      |-> n,
   questionText        |-> <<>>,
   question_images     |-> <<>>,
   option_with_images_ |-> <<<<>>, <<>>, <<>>, <<>>>>,
   correct_answer      |-> "A"]

\* Array.prototype.every(opt => opt.trim())
EveryOptionTrimmed(q) ==
  \A i \in 1..Len(q.option_with_images_) : Truthy(Trim(q.option_with_images_[i]))

\* condition of the if in addQuestion
addQuestionGuard(q) == Truthy(q.questionText) /\ EveryOptionTrimmed(q)

\* variant that trims the stem before testing it
exportIncludesCurrentTrimmed(q) == Truthy(Trim(q.questionText)) /\ EveryOptionTrimmed(q)

\* condition of the if in exportJSON
exportIncludesCurrent(q) == Truthy(q.questionText) /\ EveryOptionTrimmed(q)

\* disabled attribute of the Add Question button
addButtonDisabled(q) == ~Truthy(q.questionText) \/ ~EveryOptionTrimmed(q)

\* the commit-eligibility predicate as the rendered component exposes it
canCommit(q) == ~addButtonDisabled(q)

handleQuestionDrop(dropped) ==
  /\ currentQuestion' = [currentQuestion EXCEPT !.questionText = dropped]
  /\ lastOp' = "setStem"
  /\ download' = <<>>
  /\ UNCHANGED questionsArray
  /\ UNCHANGED <<extractVars, parseVars>>

\* variant that starts from four empty options instead of a copy
handleOptionDropFresh(dropped, optionIndex) ==
  /\ LET newOptions == [EmptyQuestion(0).option_with_images_ EXCEPT ![optionIndex] = dropped]
     IN currentQuestion' = [currentQuestion EXCEPT !.option_with_images_ = newOptions]
  /\ lastOp' = "setOption"
  /\ download' = <<>>
  /\ UNCHANGED questionsArray
  /\ UNCHANGED <<extractVars, parseVars>>

handleOptionDrop(dropped, optionIndex) ==
  /\ LET newOptions == [currentQuestion.option_with_images_ EXCEPT ![optionIndex] = dropped]
     IN currentQuestion' = [currentQuestion EXCEPT !.option_with_images_ = newOptions]
  /\ lastOp' = "setOption"
  /\ download' = <<>>
  /\ UNCHANGED questionsArray
  /\ UNCHANGED <<extractVars, parseVars>>

handleAnswerChange(answer) ==
  /\ currentQuestion' = [currentQuestion EXCEPT !.correct_answer = answer]
  /\ lastOp' = "setAnswer"
  /\ download' = <<>>
  /\ UNCHANGED questionsArray
  /\ UNCHANGED <<extractVars, parseVars>>

\* off-by-one variant: numbers the new draft with the length before the append
NextQuestionNumberOffByOne(arr) == Len(arr) + 1

NextQuestionNumber(arr) == Len(arr) + 2

\* variant that puts the new record at the front of the list
addQuestionFront ==
  /\ IF addQuestionGuard(currentQuestion)
     THEN /\ Len(questionsArray) < MaxCommitted
          /\ questionsArray' = <<currentQuestion>> \o questionsArray
          /\ currentQuestion' = EmptyQuestion(NextQuestionNumber(questionsArray))
     ELSE UNCHANGED <<currentQuestion, questionsArray>>
  /\ lastOp' = "commit"
  /\ download' = <<>>
  /\ UNCHANGED <<extractVars, parseVars>>

\* variant that renumbers the draft after the append but keeps its fields
addQuestionKeepDraft ==
  /\ IF addQuestionGuard(currentQuestion)
     THEN /\ Len(questionsArray) < MaxCommitted
          /\ questionsArray' = Append(questionsArray, currentQuestion)
          /\ currentQuestion' =
               [currentQuestion EXCEPT !.questionNumber = NextQuestionNumber(questionsArray)]
     ELSE UNCHANGED <<currentQuestion, questionsArray>>
  /\ lastOp' = "commit"
  /\ download' = <<>>
  /\ UNCHANGED <<extractVars, parseVars>>

addQuestion ==
  /\ IF addQuestionGuard(currentQuestion)
     THEN /\ Len(questionsArray) < MaxCommitted
          /\ questionsArray' = Append(questionsArray, currentQuestion)
          /\ currentQuestion' = EmptyQuestion(NextQuestionNumber(questionsArray))
     ELSE UNCHANGED <<currentQuestion, questionsArray>>
  /\ lastOp' = "commit"
  /\ download' = <<>>
  /\ UNCHANGED <<extractVars, parseVars>>

\* finalArray of exportJSON
finalArray(arr, q) == IF exportIncludesCurrent(q) THEN Append(arr, q) ELSE arr

\* variant that pushes the draft onto the committed array itself
exportJSONInPlace ==
  /\ download' = finalArray(questionsArray, currentQuestion)
  /\ questionsArray' = finalArray(questionsArray, currentQuestion)
  /\ lastOp' = "export"
  /\ UNCHANGED currentQuestion
  /\ UNCHANGED <<extractVars, parseVars>>

exportJSON ==
  /\ download' = finalArray(questionsArray, currentQuestion)
  /\ lastOp' = "export"
  /\ UNCHANGED <<currentQuestion, questionsArray>>
  /\ UNCHANGED <<extractVars, parseVars>>

\* disabled attribute of the Export JSON button
exportButtonDisabled(arr) == Len(arr) = 0

\* variant of the button without the disabled attribute
ClickExportJSONAlwaysEnabled ==
  /\ download' = finalArray(questionsArray, currentQuestion)
  /\ lastOp' = "exportClick"
  /\ UNCHANGED <<currentQuestion, questionsArray>>
  /\ UNCHANGED <<extractVars, parseVars>>

\* a click on the Export JSON button: onClick={exportJSON} while not disabled
ClickExportJSON ==
  /\ ~exportButtonDisabled(questionsArray)
  /\ download' = finalArray(questionsArray, currentQuestion)
  /\ lastOp' = "exportClick"
  /\ UNCHANGED <<currentQuestion, questionsArray>>
  /\ UNCHANGED <<extractVars, parseVars>>

\* useState initial values of the builder
BuilderInit ==
  /\ currentQuestion = EmptyQuestion(1)
  /\ questionsArray = <<>>
  /\ lastOp = "init"
  /\ download = <<>>

\* the builder once the lines of a document are shown: extraction is over
\* and no direct call of the parser is in progress
Init ==
  /\ BuilderInit
  /\ isLoading = FALSE
  /\ textLines = <<>>
  /\ pdf = [opens |-> TRUE, pages |-> <<>>]
  /\ pc = "done"
  /\ pageNum = 0
  /\ allTextLines = <<>>
  /\ text = <<>>
  /\ parser = "chunks"
  /\ lines = <<>>
  /\ previous = <<>>

Next ==
  \/ \E dropped \in DropTexts : handleQuestionDrop(dropped)
  \/ \E dropped \in DropTexts, optionIndex \in 1..4 : handleOptionDrop(dropped, optionIndex)
  \/ \E answer \in AnswerChoices : handleAnswerChange(answer)
  \/ addQuestion
  \/ exportJSON
  \/ ClickExportJSON

Spec == Init /\ [][Next]_vars

----------------------------------------------------------------------------
(* Fragment classifier: parseQuizText *)

Digits == {"0", "1", "2", "3", "4", "5", "6", "7", "8", "9"}

UpperCase == <<"A", "B", "C", "D", "E", "F", "G", "H", "I", "J", "K", "L", "M",
               "N", "O", "P", "Q", "R", "S", "T", "U", "V", "W", "X", "Y", "Z">>

LowerCase == <<"a", "b", "c", "d", "e", "f", "g", "h", "i", "j", "k", "l", "m",
               "n", "o", "p", "q", "r", "s", "t", "u", "v", "w", "x", "y", "z">>

Upper == {UpperCase[i] : i \in 1..26}

\* case folding of the i flag
ToLower(c) ==
  IF c \in Upper THEN LowerCase[CHOOSE i \in 1..26 : UpperCase[i] = c] ELSE c

\* tags that parseQuizText and extractTextFromPDF put in front of a line
QuestionTag == "Qmark"
OptionTag == "Radio"
AnswerTag == "Check"
ExplanationTag == "Bulb"
PlainTag == "Memo"
WarnTag == "Warn"
CrossTag == "Cross"

\* s from position i on (1-based), '' when i is past the end
From(s, i) == SubSeq(s, i, Len(s))

\* index of the first newline of s, 0 if there is none
RECURSIVE FirstNewline(_, _)
FirstNewline(s, i) ==
  IF i > Len(s) THEN 0
  ELSE IF s[i] = "\n" THEN i ELSE FirstNewline(s, i + 1)

\* first index at or after i that is not a newline
RECURSIVE SkipNewlines(_, _)
SkipNewlines(s, i) ==
  IF i <= Len(s) /\ s[i] = "\n" THEN SkipNewlines(s, i + 1) ELSE i

\* text.split(/\n+/)
RECURSIVE SplitNewlines(_)
SplitNewlines(s) ==
  LET i == FirstNewline(s, 1)
  IN IF i = 0 THEN <<s>>
     ELSE <<SubSeq(s, 1, i - 1)>> \o SplitNewlines(From(s, SkipNewlines(s, i)))

\* first index at or after i that is not whitespace
RECURSIVE SkipSpace(_, _)
SkipSpace(s, i) ==
  IF i <= Len(s) /\ s[i] \in Space THEN SkipSpace(s, i + 1) ELSE i

\* replace(/\s+/g, ' ')
RECURSIVE CollapseSpace(_)
CollapseSpace(s) ==
  IF s = <<>> THEN <<>>
  ELSE IF Head(s) \in Space
       THEN <<" ">> \o CollapseSpace(From(s, SkipSpace(s, 1)))
       ELSE <<Head(s)>> \o CollapseSpace(Tail(s))

\* chunk.trim().replace(/\s+/g, ' ')
Normalise(chunk) == CollapseSpace(Trim(chunk))

\* the chunks that pass .filter(chunk => chunk.trim().length > 5)
MinChunkLength == 5

RECURSIVE FilterChunks(_)
FilterChunks(cs) ==
  IF cs = <<>> THEN <<>>
  ELSE IF Len(Trim(Head(cs))) > MinChunkLength
       THEN <<Head(cs)>> \o FilterChunks(Tail(cs))
       ELSE FilterChunks(Tail(cs))

Chunks(t) == FilterChunks(SplitNewlines(t))

\* first index at or after i that is not a digit
RECURSIVE SkipDigits(_, _)
SkipDigits(s, i) ==
  IF i <= Len(s) /\ s[i] \in Digits THEN SkipDigits(s, i + 1) ELSE i

At(s, i) == IF i >= 1 /\ i <= Len(s) THEN s[i] ELSE "EOF"

\* /^\d+[\.\)]\s+/.test(s)
IsQuestion(s) ==
  LET i == SkipDigits(s, 1)
  IN /\ i > 1
     /\ At(s, i) \in {".", ")"}
     /\ At(s, i + 1) \in Space

OptionMarkers == {"bullet", "-", "*"}
OptionLetters == {"a", "b", "c", "d", "A", "B", "C", "D"}

\* index just after the match of /^[•\-\*]?\s*[\(\[]?[a-dA-D][\)\.\]]\s+/ on
\* s, 0 if it does not match
OptionMatchEnd(s) ==
  LET i == IF At(s, 1) \in OptionMarkers THEN 2 ELSE 1
      j == SkipSpace(s, i)
      k == IF At(s, j) \in {"(", "["} THEN j + 1 ELSE j
  IN IF /\ At(s, k) \in OptionLetters
        /\ At(s, k + 1) \in {")", ".", "]"}
        /\ At(s, k + 2) \in Space
     THEN SkipSpace(s, k + 2)
     ELSE 0

\* /^[•\-\*]?\s*[\(\[]?[a-dA-D][\)\.\]]\s+/.test(s)
IsOption(s) == OptionMatchEnd(s) # 0

\* s starts with word, compared without case
StartsWithWord(s, word) ==
  /\ Len(s) >= Len(word)
  /\ \A i \in 1..Len(word) : ToLower(s[i]) = ToLower(word[i])

\* /^(w1|w2|...)s?[:]\s*/i.test(s) for the words of the set
HasLabel(s, words) ==
  \E word \in words :
    /\ StartsWithWord(s, word)
    /\ \/ At(s, Len(word) + 1) = ":"
       \/ /\ ToLower(At(s, Len(word) + 1)) = "s"
          /\ At(s, Len(word) + 2) = ":"

AnswerWords ==
  {<<"A", "n", "s", "w", "e", "r">>, <<"A", "n", "s">>,
   <<"C", "o", "r", "r", "e", "c", "t">>,
   <<"S", "o", "l", "u", "t", "i", "o", "n">>}

ExplanationWords ==
  {<<"E", "x", "p", "l", "a", "n", "a", "t", "i", "o", "n">>,
   <<"B", "e", "c", "a", "u", "s", "e">>, <<"R", "e", "a", "s", "o", "n">>,
   <<"S", "o", "l", "u", "t", "i", "o", "n">>}

\* /^(Answer|Ans|Correct|Solution)s?[:]\s*/i.test(s)
IsAnswer(s) == HasLabel(s, AnswerWords)

\* /^(Explanation|Because|Reason|Solution)s?[:]\s*/i.test(s)
IsExplanation(s) == HasLabel(s, ExplanationWords)

MinPlainLength == 15

\* /^[A-Z\s]+$/.test(s)
IsHeader(s) ==
  /\ s # <<>>
  /\ \A i \in 1..Len(s) : s[i] \in Upper \cup Space

\* trimmed.length > 15 && !/^[A-Z\s]+$/.test(trimmed)
IsPlain(s) == Len(s) > MinPlainLength /\ ~IsHeader(s)

\* `${tag} ${trimmed}`
Tagged(tag, s) == <<tag, " ">> \o s

\* variant that tests the explanation labels before the answer labels
ClassifyChunkExplanationFirst(chunk) ==
  LET trimmed == Normalise(chunk)
  IN IF IsQuestion(trimmed) THEN <<Tagged(QuestionTag, trimmed)>>
     ELSE IF IsOption(trimmed) THEN <<Tagged(OptionTag, trimmed)>>
     ELSE IF IsExplanation(trimmed) THEN <<Tagged(ExplanationTag, trimmed)>>
     ELSE IF IsAnswer(trimmed) THEN <<Tagged(AnswerTag, trimmed)>>
     ELSE IF IsPlain(trimmed) THEN <<Tagged(PlainTag, trimmed)>>
     ELSE <<>>

\* variant that pushes only what follows the option marker and letter
ClassifyChunkStripped(chunk) ==
  LET trimmed == Normalise(chunk)
  IN IF IsQuestion(trimmed) THEN <<Tagged(QuestionTag, trimmed)>>
     ELSE IF IsOption(trimmed)
          THEN <<Tagged(OptionTag, From(trimmed, OptionMatchEnd(trimmed)))>>
     ELSE IF IsAnswer(trimmed) THEN <<Tagged(AnswerTag, trimmed)>>
     ELSE IF IsExplanation(trimmed) THEN <<Tagged(ExplanationTag, trimmed)>>
     ELSE IF IsPlain(trimmed) THEN <<Tagged(PlainTag, trimmed)>>
     ELSE <<>>

\* body of the for loop of parseQuizText: the lines pushed for one chunk
ClassifyChunk(chunk) ==
  LET trimmed == Normalise(chunk)
  IN IF IsQuestion(trimmed) THEN <<Tagged(QuestionTag, trimmed)>>
     ELSE IF IsOption(trimmed) THEN <<Tagged(OptionTag, trimmed)>>
     ELSE IF IsAnswer(trimmed) THEN <<Tagged(AnswerTag, trimmed)>>
     ELSE IF IsExplanation(trimmed) THEN <<Tagged(ExplanationTag, trimmed)>>
     ELSE IF IsPlain(trimmed) THEN <<Tagged(PlainTag, trimmed)>>
     ELSE <<>>

RECURSIVE ClassifyChunks(_)
ClassifyChunks(cs) ==
  IF cs = <<>> THEN <<>>
  ELSE ClassifyChunk(Head(cs)) \o ClassifyChunks(Tail(cs))

parseQuizText(t) == ClassifyChunks(Chunks(t))

----------------------------------------------------------------------------
(* Fragment classifier, pattern-anchored variant: parseQuizText of the     *)
(* earlier EditorScreen (src/unnamed/part_001)                             *)

\* characters that . does not match
LineTerminators == {"\n", "\r"}

\* s has word at position i
HasAt(s, i, word) == \A n \in 1..Len(word) : At(s, i + n - 1) = word[n]

AnswerColon == <<"A", "n", "s", "w", "e", "r", ":">>

\* /\d+\./ matches at position i
DigitsDotAt(s, i) ==
  LET d == SkipDigits(s, i) IN d > i /\ At(s, d) = "."

\* /\d+\.\s/ matches at position i
DigitsDotSpaceAt(s, i) ==
  LET d == SkipDigits(s, i) IN d > i /\ At(s, d) = "." /\ At(s, d + 1) \in Space

\* /\s*•\s*\([a-d]\)/ matches at position i
BulletOptionAt(s, i) ==
  LET j == SkipSpace(s, i)
      k == SkipSpace(s, j + 1)
  IN /\ At(s, j) = "bullet"
     /\ At(s, k) = "("
     /\ At(s, k + 1) \in {"a", "b", "c", "d"}
     /\ At(s, k + 2) = ")"

\* text.split(/(?=\d+\.\s)/): the pieces of s from position p on, q being
\* the position under test
RECURSIVE SplitBeforeNumbers(_, _, _)
SplitBeforeNumbers(s, p, q) ==
  IF q > Len(s) THEN <<SubSeq(s, p, Len(s))>>
  ELSE IF q > p /\ DigitsDotSpaceAt(s, q)
       THEN <<SubSeq(s, p, q - 1)>> \o SplitBeforeNumbers(s, q, q + 1)
       ELSE SplitBeforeNumbers(s, p, q + 1)

RECURSIVE FilterBlocks(_)
FilterBlocks(bs) ==
  IF bs = <<>> THEN <<>>
  ELSE IF Len(Trim(Head(bs))) > 0
       THEN <<Head(bs)>> \o FilterBlocks(Tail(bs))
       ELSE FilterBlocks(Tail(bs))

questionBlocks(t) ==
  IF t = <<>> THEN <<>> ELSE FilterBlocks(SplitBeforeNumbers(t, 1, 1))

NoMatch == [found |-> FALSE, from |-> 0, start |-> 0, end |-> 0, letter |-> "EOF"]

\* (.*?)(?=\s*•\s*\([a-d]\)|$) from position e: the end of the shortest
\* match, 0 if a line terminator comes first
RECURSIVE QuestionTextEnd(_, _)
QuestionTextEnd(s, e) ==
  IF BulletOptionAt(s, e) \/ e = Len(s) + 1 THEN e
  ELSE IF s[e] \in LineTerminators THEN 0
  ELSE QuestionTextEnd(s, e + 1)

\* \s+ gives back whitespace from position a down to lo until the rest matches
RECURSIVE QuestionBacktrack(_, _, _)
QuestionBacktrack(s, a, lo) ==
  IF a < lo THEN NoMatch
  ELSE LET e == QuestionTextEnd(s, a)
       IN IF e # 0
          THEN [found |-> TRUE, from |-> 1, start |-> a, end |-> e, letter |-> "EOF"]
          ELSE QuestionBacktrack(s, a - 1, lo)

\* s.match(/^(\d+\.)\s+(.*?)(?=\s*•\s*\([a-d]\)|$)/): group 2 is
\* s[start..end-1], the whole match s[1..end-1]
questionMatch(s) ==
  LET d == SkipDigits(s, 1)
  IN IF d > 1 /\ At(s, d) = "." /\ At(s, d + 1) \in Space
     THEN QuestionBacktrack(s, SkipSpace(s, d + 1), d + 2)
     ELSE NoMatch

\* (.*?)(?=\s*•\s*\([a-d]\)|Answer:|$) from position e
RECURSIVE OptionTextEnd(_, _)
OptionTextEnd(s, e) ==
  IF BulletOptionAt(s, e) \/ HasAt(s, e, AnswerColon) \/ e = Len(s) + 1 THEN e
  ELSE IF s[e] \in LineTerminators THEN 0
  ELSE OptionTextEnd(s, e + 1)

RECURSIVE OptionBacktrack(_, _, _, _, _)
OptionBacktrack(s, i, letter, a, lo) ==
  IF a < lo THEN NoMatch
  ELSE LET e == OptionTextEnd(s, a)
       IN IF e # 0
          THEN [found |-> TRUE, from |-> i, start |-> a, end |-> e, letter |-> letter]
          ELSE OptionBacktrack(s, i, letter, a - 1, lo)

\* /•\s*\(([a-d])\)\s+(.*?)(?=\s*•\s*\([a-d]\)|Answer:|$)/ tried at position i
OptionMatchAt(s, i) ==
  LET k == SkipSpace(s, i + 1)
  IN IF /\ At(s, i) = "bullet"
        /\ At(s, k) = "("
        /\ At(s, k + 1) \in {"a", "b", "c", "d"}
        /\ At(s, k + 2) = ")"
        /\ At(s, k + 3) \in Space
     THEN OptionBacktrack(s, i, s[k + 1], SkipSpace(s, k + 3), k + 4)
     ELSE NoMatch

\* the leftmost match that starts at or after position i
RECURSIVE NextOptionMatch(_, _)
NextOptionMatch(s, i) ==
  IF i > Len(s) THEN NoMatch
  ELSE LET m == OptionMatchAt(s, i)
       IN IF m.found THEN m ELSE NextOptionMatch(s, i + 1)

\* s.matchAll(...): the successive matches from position i on
RECURSIVE optionMatches(_, _)
optionMatches(s, i) ==
  LET m == NextOptionMatch(s, i)
  IN IF m.found THEN <<m>> \o optionMatches(s, m.end) ELSE <<>>

\* index of the first occurrence of sub in s at or after i, 0 if none
RECURSIVE IndexOf(_, _, _)
IndexOf(s, sub, i) ==
  IF i + Len(sub) - 1 > Len(s) THEN 0
  ELSE IF HasAt(s, i, sub) THEN i ELSE IndexOf(s, sub, i + 1)

\* s.replace(sub, '')
RemoveFirst(s, sub) ==
  LET i == IndexOf(s, sub, 1)
  IN IF i = 0 THEN s
     ELSE SubSeq(s, 1, i - 1) \o SubSeq(s, i + Len(sub), Len(s))

\* the lines pushed by the loop over the option matches ms of the text s
RECURSIVE OptionLines(_, _)
OptionLines(s, ms) ==
  IF ms = <<>> THEN <<>>
  ELSE LET m == Head(ms)
           optionText == Trim(SubSeq(s, m.start, m.end - 1))
       IN (IF optionText # <<>>
           THEN <<Tagged(OptionTag, <<"(", m.letter, ")", " ">> \o optionText)>>
           ELSE <<>>) \o OptionLines(s, Tail(ms))

\* remainingText after the loop over the option matches ms of the text s
RECURSIVE RemoveMatches(_, _, _)
RemoveMatches(remaining, s, ms) ==
  IF ms = <<>> THEN remaining
  ELSE LET m == Head(ms)
       IN RemoveMatches(Trim(RemoveFirst(remaining, SubSeq(s, m.from, m.end - 1))),
                        s, Tail(ms))

\* (.+?)(?=\d+\.|$): e is the end under test, the character before it is
\* the last one taken
RECURSIVE AnswerTextEnd(_, _)
AnswerTextEnd(s, e) ==
  IF e > Len(s) + 1 THEN 0
  ELSE IF s[e - 1] \in LineTerminators THEN 0
  ELSE IF DigitsDotAt(s, e) \/ e = Len(s) + 1 THEN e
  ELSE AnswerTextEnd(s, e + 1)

\* \s* gives back whitespace from position a down to lo until the rest matches
RECURSIVE AnswerBacktrack(_, _, _, _)
AnswerBacktrack(s, i, a, lo) ==
  IF a < lo THEN NoMatch
  ELSE LET e == AnswerTextEnd(s, a + 1)
       IN IF e # 0
          THEN [found |-> TRUE, from |-> i, start |-> a, end |-> e, letter |-> "EOF"]
          ELSE AnswerBacktrack(s, i, a - 1, lo)

\* s.match(/Answer:\s*(.+?)(?=\d+\.|$)/): the leftmost match from position i on
RECURSIVE answerMatch(_, _)
answerMatch(s, i) ==
  IF i > Len(s) THEN NoMatch
  ELSE LET m == IF HasAt(s, i, AnswerColon)
                THEN AnswerBacktrack(s, i, SkipSpace(s, i + 7), i + 7)
                ELSE NoMatch
       IN IF m.found THEN m ELSE answerMatch(s, i + 1)

\* variant that pushes the whole question match instead of its second group
ClassifyBlockWholeMatch(block) ==
  LET trimmedBlock == Trim(block)
      qm == questionMatch(trimmedBlock)
      questionText == Trim(SubSeq(trimmedBlock, 1, qm.end - 1))
      afterQuestion ==
        IF qm.found
        THEN Trim(RemoveFirst(trimmedBlock, SubSeq(trimmedBlock, 1, qm.end - 1)))
        ELSE trimmedBlock
      oms == optionMatches(afterQuestion, 1)
      afterOptions == RemoveMatches(afterQuestion, afterQuestion, oms)
      am == answerMatch(afterOptions, 1)
      answerText == Trim(SubSeq(afterOptions, am.start, am.end - 1))
  IN (IF qm.found /\ questionText # <<>>
      THEN <<Tagged(QuestionTag, questionText)>> ELSE <<>>)
     \o OptionLines(afterQuestion, oms)
     \o (IF am.found /\ answerText # <<>>
         THEN <<Tagged(AnswerTag, AnswerColon \o <<" ">> \o answerText)>> ELSE <<>>)

\* body of the for loop over the question blocks: the lines pushed for one block
ClassifyBlock(block) ==
  LET trimmedBlock == Trim(block)
      qm == questionMatch(trimmedBlock)
      questionText == Trim(SubSeq(trimmedBlock, qm.start, qm.end - 1))
      afterQuestion ==
        IF qm.found
        THEN Trim(RemoveFirst(trimmedBlock, SubSeq(trimmedBlock, 1, qm.end - 1)))
        ELSE trimmedBlock
      oms == optionMatches(afterQuestion, 1)
      afterOptions == RemoveMatches(afterQuestion, afterQuestion, oms)
      am == answerMatch(afterOptions, 1)
      answerText == Trim(SubSeq(afterOptions, am.start, am.end - 1))
  IN (IF qm.found /\ questionText # <<>>
      THEN <<Tagged(QuestionTag, questionText)>> ELSE <<>>)
     \o OptionLines(afterQuestion, oms)
     \o (IF am.found /\ answerText # <<>>
         THEN <<Tagged(AnswerTag, AnswerColon \o <<" ">> \o answerText)>> ELSE <<>>)

RECURSIVE ClassifyBlocks(_)
ClassifyBlocks(bs) ==
  IF bs = <<>> THEN <<>>
  ELSE ClassifyBlock(Head(bs)) \o ClassifyBlocks(Tail(bs))

\* parseQuizText of the pattern-anchored variant
parseQuizTextByPattern(t) == ClassifyBlocks(questionBlocks(t))

\* pieces of page text the inputs of the parser are put together from
Pieces ==
  {<<"1", ".", " ">>, <<"2", ")", " ">>,
   <<"(", "a", ")", " ">>, <<"B", ".", " ">>, <<"bullet", " ">>, <<"-">>,
   <<"A", "n", "s", "w", "e", "r", ":", " ">>,
   <<"S", "o", "l", "u", "t", "i", "o", "n", "s", ":", " ">>,
   <<"e", "x", "p", "l", "a", "n", "a", "t", "i", "o", "n", ":">>,
   <<"x", "y", "z", "w">>, <<" ">>, <<"\n">>,
   <<"s", "o", "m", "e", " ", "p", "l", "a", "i", "n", " ", "t", "e", "x", "t", ".">>,
   <<"H", "E", "A", "D", "I", "N", "G", " ", "H", "E", "A", "D", "I", "N", "G", " ", "X">>}

RECURSIVE TextsOf(_)
TextsOf(n) ==
  IF n = 0 THEN {<<>>}
  ELSE LET shorter == TextsOf(n - 1)
       IN shorter \cup {t \o p : t \in shorter, p \in Pieces}

\* the block of the specification's scenario: a numbered question, four
\* bulleted options and an answer on one line
ScenarioText ==
  <<"1", ".", " ", "W", "h", "a", "t", " ", "i", "s", " ", "2", "+", "2", "?", " ",
    "bullet", " ", "(", "a", ")", " ", "3", " ", "bullet", " ", "(", "b", ")", " ", "4", " ",
    "bullet", " ", "(", "c", ")", " ", "5", " ", "bullet", " ", "(", "d", ")", " ", "6", " ",
    "A", "n", "s", "w", "e", "r", ":", " ", "b">>

\* the same question followed by its answer only
ScenarioAnswerOnly ==
  <<"1", ".", " ", "W", "h", "a", "t", " ", "i", "s", " ", "2", "+", "2", "?", " ",
    "A", "n", "s", "w", "e", "r", ":", " ", "b">>

ParserInputs == TextsOf(MaxPieces) \cup {ScenarioText, ScenarioAnswerOnly}

\* variant whose array of lines is declared outside the function, so that
\* a call pushes onto what the call before it left
CallParseQuizTextSharedLines ==
  /\ pc \in {"call", "returned"}
  /\ parser = "chunks"
  /\ lines' = lines \o parseQuizText(text)
  /\ previous' = lines
  /\ pc' = IF pc = "call" THEN "returned" ELSE "again"
  /\ UNCHANGED <<builderVars, isLoading, textLines, pdf, pageNum, allTextLines, text, parser>>

\* a direct call of parseQuizText of EditorScreen.tsx on a text: the first
\* one, or a second one on the same text
CallParseQuizText ==
  /\ pc \in {"call", "returned"}
  /\ parser = "chunks"
  /\ lines' = parseQuizText(text)
  /\ previous' = lines
  /\ pc' = IF pc = "call" THEN "returned" ELSE "again"
  /\ UNCHANGED <<builderVars, isLoading, textLines, pdf, pageNum, allTextLines, text, parser>>

\* a direct call of parseQuizText of the pattern-anchored variant on a text
CallParseQuizTextByPattern ==
  /\ pc \in {"call", "returned"}
  /\ parser = "pattern"
  /\ lines' = parseQuizTextByPattern(text)
  /\ previous' = lines
  /\ pc' = IF pc = "call" THEN "returned" ELSE "again"
  /\ UNCHANGED <<builderVars, isLoading, textLines, pdf, pageNum, allTextLines, text, parser>>

ParseInit ==
  /\ BuilderInit
  /\ isLoading = FALSE
  /\ textLines = <<>>
  /\ pdf = [opens |-> TRUE, pages |-> <<>>]
  /\ pc = "call"
  /\ pageNum = 0
  /\ allTextLines = <<>>
  /\ text \in ParserInputs
  /\ parser \in {"chunks", "pattern"}
  /\ lines = <<>>
  /\ previous = <<>>

ParseNext == CallParseQuizText \/ CallParseQuizTextByPattern

SpecParse == ParseInit /\ [][ParseNext]_vars

----------------------------------------------------------------------------
(* Text extraction: extractTextFromPDF *)

DigitChars == <<"0", "1", "2", "3", "4", "5", "6", "7", "8", "9">>

\* `${n}` for a non-negative integer
RECURSIVE DecimalString(_)
DecimalString(n) ==
  IF n < 10 THEN <<DigitChars[n + 1]>>
  ELSE DecimalString(n \div 10) \o <<DigitChars[(n % 10) + 1]>>

\* `Error processing page ${n}` behind its tag
PageErrorLine(n) ==
  Tagged(WarnTag, <<"E", "r", "r", "o", "r", " ", "p", "r", "o", "c", "e", "s", "s",
                    "i", "n", "g", " ", "p", "a", "g", "e", " ">> \o DecimalString(n))

\* the line shown when the document cannot be loaded at all
LoadErrorLine ==
  Tagged(CrossTag, <<"E", "r", "r", "o", "r", " ", "l", "o", "a", "d", "i", "n", "g",
                     " ", "P", "D", "F", " ", "w", "i", "t", "h", " ", "M", "u", "P",
                     "D", "F", ".", "j", "s", ".", " ", "C", "h", "e", "c", "k", " ",
                     "c", "o", "n", "s", "o", "l", "e", " ", "f", "o", "r", " ", "d",
                     "e", "t", "a", "i", "l", "s", ".">>)

\* what a call of asText() on a page does: throw, or return a text
Throws == [ok |-> FALSE, value |-> <<>>]
Returns(t) == [ok |-> TRUE, value |-> t]

\* texts a page can hold
PageTexts ==
  {<<>>,
   <<" ", "\n">>,
   <<"1", ".", " ", "x", "y", "z", "\n", "(", "a", ")", " ", "x", "y", "z">>}

\* parseQuizText(pageText) for each text a page can hold
ParsedPageTexts == [t \in PageTexts |-> parseQuizText(t)]

TextResults == {Throws} \cup {Returns(t) : t \in PageTexts}

\* a page: whether loadPage succeeds, and what toStructuredText with the
\* preserve options and without them does
PageBehaviours ==
  {[loads |-> FALSE, structured |-> Throws, basic |-> Throws]}
    \cup {[loads |-> TRUE, structured |-> s, basic |-> b] :
            s \in TextResults, b \in TextResults}

RECURSIVE PageSeqs(_)
PageSeqs(n) ==
  IF n = 0 THEN {<<>>}
  ELSE LET shorter == PageSeqs(n - 1)
       IN shorter \cup {Append(ps, p) : ps \in shorter, p \in PageBehaviours}

\* a document: whether the library loads and openDocument succeeds, and its pages
Documents == {[opens |-> o, pages |-> ps] : o \in BOOLEAN, ps \in PageSeqs(MaxPages)}

\* the inner try/catch: structured text, else the basic extraction
PageText(page) == IF page.structured.ok THEN page.structured ELSE page.basic

\* the page makes the body of the outer try of the loop throw
PageThrows(page) == ~page.loads \/ ~PageText(page).ok

\* useEffect: extractTextFromPDF(file) starts
StartExtract ==
  /\ pc = "start"
  /\ isLoading' = TRUE
  /\ pc' = "open"
  /\ UNCHANGED <<builderVars, parseVars, textLines, pdf, pageNum, allTextLines>>

\* import('mupdf'), file.arrayBuffer(), openDocument and countPages
OpenDocument ==
  /\ pc = "open"
  /\ IF pdf.opens
     THEN /\ allTextLines' = <<>>
          /\ pageNum' = 0
          /\ pc' = "pages"
     ELSE /\ pc' = "catch"
          /\ UNCHANGED <<allTextLines, pageNum>>
  /\ UNCHANGED <<builderVars, parseVars, isLoading, textLines, pdf>>

\* variant that reports a page without text like a page that failed
ProcessPageBlankNotice ==
  /\ pc = "pages"
  /\ pageNum < Len(pdf.pages)
  /\ LET page == pdf.pages[pageNum + 1]
     IN allTextLines' =
          IF PageThrows(page) \/ Trim(PageText(page).value) = <<>>
          THEN Append(allTextLines, PageErrorLine(pageNum + 1))
          ELSE allTextLines \o ParsedPageTexts[PageText(page).value]
  /\ pageNum' = pageNum + 1
  /\ UNCHANGED <<builderVars, parseVars, isLoading, textLines, pdf, pc>>

\* variant without the try/catch around the loop body: a failing page
\* ends the loop through the outer catch
ProcessPageUnguarded ==
  /\ pc = "pages"
  /\ pageNum < Len(pdf.pages)
  /\ LET page == pdf.pages[pageNum + 1]
     IN IF PageThrows(page)
        THEN /\ pc' = "catch"
             /\ UNCHANGED <<allTextLines, pageNum>>
        ELSE /\ allTextLines' =
                  IF Trim(PageText(page).value) # <<>>
                  THEN allTextLines \o ParsedPageTexts[PageText(page).value]
                  ELSE allTextLines
             /\ pageNum' = pageNum + 1
             /\ pc' = "pages"
  /\ UNCHANGED <<builderVars, parseVars, isLoading, textLines, pdf>>

\* one iteration of the for loop over the pages
ProcessPage ==
  /\ pc = "pages"
  /\ pageNum < Len(pdf.pages)
  /\ LET page == pdf.pages[pageNum + 1]
     IN allTextLines' =
          IF PageThrows(page)
          THEN Append(allTextLines, PageErrorLine(pageNum + 1))
          ELSE IF Trim(PageText(page).value) # <<>>
               THEN allTextLines \o ParsedPageTexts[PageText(page).value]
               ELSE allTextLines
  /\ pageNum' = pageNum + 1
  /\ UNCHANGED <<builderVars, parseVars, isLoading, textLines, pdf, pc>>

\* setTextLines(allTextLines) after the loop
ShowLines ==
  /\ pc = "pages"
  /\ pageNum >= Len(pdf.pages)
  /\ textLines' = allTextLines
  /\ pc' = "finally"
  /\ UNCHANGED <<builderVars, parseVars, isLoading, pdf, pageNum, allTextLines>>

\* variant whose catch leaves the function without the finally block
CatchLoadErrorNoFinally ==
  /\ pc = "catch"
  /\ textLines' = <<LoadErrorLine>>
  /\ pc' = "done"
  /\ UNCHANGED <<builderVars, parseVars, isLoading, pdf, pageNum, allTextLines>>

\* the outer catch
CatchLoadError ==
  /\ pc = "catch"
  /\ textLines' = <<LoadErrorLine>>
  /\ pc' = "finally"
  /\ UNCHANGED <<builderVars, parseVars, isLoading, pdf, pageNum, allTextLines>>

\* finally: setIsLoading(false)
FinishExtract ==
  /\ pc = "finally"
  /\ isLoading' = FALSE
  /\ pc' = "done"
  /\ UNCHANGED <<builderVars, parseVars, textLines, pdf, pageNum, allTextLines>>

\* the component is mounted with a file
ExtractInit ==
  /\ BuilderInit
  /\ isLoading = TRUE
  /\ textLines = <<>>
  /\ pdf \in Documents
  /\ pc = "start"
  /\ pageNum = 0
  /\ allTextLines = <<>>
  /\ text = <<>>
  /\ parser = "chunks"
  /\ lines = <<>>
  /\ previous = <<>>

extractTextFromPDF ==
  \/ StartExtract
  \/ OpenDocument
  \/ ProcessPage
  \/ ShowLines
  \/ CatchLoadError
  \/ FinishExtract

SpecExtract == ExtractInit /\ [][extractTextFromPDF]_vars

\* the event loop resumes the function after every await and runs each
\* synchronous stretch to its end: a step that can be taken is taken
SpecExtractFair == SpecExtract /\ WF_vars(extractTextFromPDF)

----------------------------------------------------------------------------
(* Properties of the question assembly *)

\* the predicate the specification gives for canCommit()
SpecCanCommit(q) ==
  /\ Trim(q.questionText) # <<>>
  /\ \A i \in 1..4 : Trim(q.option_with_images_[i]) # <<>>

\* C1: in every reachable draft state canCommit() is true iff the stem and
\* each of the four options are non-empty after trimming whitespace.
C1_CanCommitIffTrimmed ==
  canCommit(currentQuestion) <=> SpecCanCommit(currentQuestion)

\* C2: a commit on a committable draft appends exactly the draft as it was
\* and leaves a fresh draft numbered old length + 2 (= new length + 1) with
\* empty stem, four empty options, no images and answer "A".
C2_CommitAppendsAndResets ==
  [][(lastOp' = "commit" /\ canCommit(currentQuestion)) =>
       /\ Len(questionsArray') = Len(questionsArray) + 1
       /\ questionsArray' = Append(questionsArray, currentQuestion)
       /\ currentQuestion'.questionNumber = Len(questionsArray) + 2
       /\ currentQuestion'.questionNumber = Len(questionsArray') + 1
       /\ currentQuestion'.questionText = <<>>
       /\ currentQuestion'.option_with_images_ = <<<<>>, <<>>, <<>>, <<>>>>
       /\ currentQuestion'.question_images = <<>>
       /\ currentQuestion'.correct_answer = "A"]_vars

\* a commit has just been accepted for a second record with a non-default answer
C2_Witness ==
  /\ lastOp = "commit"
  /\ Len(questionsArray) = 2
  /\ questionsArray[2].correct_answer = "C"
  /\ currentQuestion.questionNumber = 3
  /\ currentQuestion.questionText = <<>>

\* C3: a commit while canCommit() is false (stem or an option blank after
\* trimming) is rejected and changes neither the draft nor the committed list.
C3_RejectedCommitChangesNothing ==
  [][(lastOp' = "commit" /\ ~SpecCanCommit(currentQuestion)) =>
       UNCHANGED <<currentQuestion, questionsArray>>]_vars

\* C4: an export is the committed list in commit order, followed by the
\* draft iff the draft is committable (length N or N+1), and every element
\* has exactly four options.
C4_ExportIsListPlusCommittableDraft ==
  lastOp = "export" =>
    /\ download = IF SpecCanCommit(currentQuestion)
                  THEN Append(questionsArray, currentQuestion)
                  ELSE questionsArray
    /\ \A i \in 1..Len(download) : Len(download[i].option_with_images_) = 4

\* C5: an export changes neither the draft, the committed list nor the
\* value of canCommit(), and an export that follows an export returns the
\* same export set.
C5_ExportIsPure ==
  [][lastOp' = "export" =>
       /\ UNCHANGED <<currentQuestion, questionsArray>>
       /\ canCommit(currentQuestion') = canCommit(currentQuestion)
       /\ (lastOp = "export" => download' = download)]_vars

\* an export that included a committable draft after a committed record
C5_Witness ==
  /\ lastOp = "export"
  /\ Len(questionsArray) >= 1
  /\ Len(download) = Len(questionsArray) + 1

\* C6: committed records have pairwise distinct numbers, and every
\* operation keeps each committed record at its position with all its
\* fields (the list only grows at the end).
C6_CommittedRecordsFixed ==
  /\ [](\A i, j \in 1..Len(questionsArray) :
          i # j => questionsArray[i].questionNumber # questionsArray[j].questionNumber)
  /\ [][\A i \in 1..Len(questionsArray) :
          /\ i <= Len(questionsArray')
          /\ questionsArray'[i] = questionsArray[i]]_vars

\* two records are committed and the draft is being edited again
C6_Witness ==
  /\ Len(questionsArray) = 2
  /\ questionsArray[1].questionNumber # questionsArray[2].questionNumber
  /\ lastOp = "setOption"
  /\ currentQuestion.option_with_images_[3] = <<"x">>

\* C7: every committed record has a stem and four options that are
\* non-empty after trimming.
C7_CommittedRecordsValid ==
  \A i \in 1..Len(questionsArray) : SpecCanCommit(questionsArray[i])

\* C8: the condition of addQuestion, the enabling condition of the Add
\* Question button and the condition under which exportJSON appends the
\* draft have the same truth value for every draft.
C8_SamePredicateAtEverySite ==
  /\ addQuestionGuard(currentQuestion) <=> ~addButtonDisabled(currentQuestion)
  /\ addQuestionGuard(currentQuestion) <=> exportIncludesCurrent(currentQuestion)

\* a draft on which a trimmed and an untrimmed stem test would differ
C8_Witness ==
  /\ currentQuestion.questionText = <<" ">>
  /\ EveryOptionTrimmed(currentQuestion)
  /\ addQuestionGuard(currentQuestion)

----------------------------------------------------------------------------
(* Properties of the extraction and of the classifier *)

IsPrefix(a, b) == Len(a) <= Len(b) /\ SubSeq(b, 1, Len(a)) = a

\* C9: a page whose extraction fails adds exactly one notice line for that
\* page, keeps every line classified from earlier pages, and the loop goes
\* on with the next page; at the end the lines shown are the accumulated
\* ones, with as many notices as there are failing pages.
C9_PageFailureIsolated ==
  /\ [][(pc = "pages" /\ pageNum < Len(pdf.pages)
           /\ PageThrows(pdf.pages[pageNum + 1])) =>
          /\ allTextLines' = Append(allTextLines, PageErrorLine(pageNum + 1))
          /\ pageNum' = pageNum + 1
          /\ pc' = "pages"]_vars
  /\ [][pc = "pages" => IsPrefix(allTextLines, allTextLines')]_vars
  /\ [](pc = "done" /\ pdf.opens =>
          /\ pageNum = Len(pdf.pages)
          /\ textLines = allTextLines
          /\ Cardinality({i \in 1..Len(textLines) : textLines[i][1] = WarnTag})
               = Cardinality({n \in 1..Len(pdf.pages) : PageThrows(pdf.pages[n])})
          /\ \A n \in 1..Len(pdf.pages) :
               PageThrows(pdf.pages[n]) =>
                 \E i \in 1..Len(textLines) : textLines[i] = PageErrorLine(n))

\* the first page failed, the second gave two lines, and both are shown
C9_Witness ==
  /\ pc = "done"
  /\ Len(pdf.pages) = 2
  /\ PageThrows(pdf.pages[1])
  /\ ~PageThrows(pdf.pages[2])
  /\ Len(textLines) = 3
  /\ textLines[1] = PageErrorLine(1)
  /\ textLines[2][1] = QuestionTag
  /\ textLines[3][1] = OptionTag

\* what follows the tag and the space of a line
LineText(line) == From(line, 3)

\* the lines of role Option returned by the call
OptionLineIndexes == {i \in 1..Len(lines) : lines[i][1] = OptionTag}

StemOfScenario == <<"W", "h", "a", "t", " ", "i", "s", " ", "2", "+", "2", "?">>

QuestionLineIndexes == {i \in 1..Len(lines) : lines[i][1] = QuestionTag}

\* t is a chunk of the input that still begins with its number and delimiter
IsNumberedChunkOf(t, input) ==
  \E n \in 1..Len(Chunks(input)) : Normalise(Chunks(input)[n]) = t /\ IsQuestion(t)

\* C13: the text of every Question line has neither the leading number and
\* delimiter nor any option or answer text: it ends before the first option
\* marker or "Answer:" marker, also when only an answer follows the stem.
C13_StemEndsBeforeMarkers ==
  pc = "returned" =>
    \A i \in QuestionLineIndexes :
      LET stem == LineText(lines[i])
      IN /\ parser = "chunks" => ~IsNumberedChunkOf(stem, text)
         /\ \A k \in 1..Len(stem) :
              ~BulletOptionAt(stem, k) /\ ~HasAt(stem, k, AnswerColon)

SolutionWord == <<"S", "o", "l", "u", "t", "i", "o", "n">>

RoleTags == {QuestionTag, OptionTag, AnswerTag, ExplanationTag, PlainTag}

\* C14: the rules are tried in the order Question, Option, Answer,
\* Explanation, Plain and the first that matches wins: every returned line has
\* exactly one role, the role of the first rule its chunk satisfies, no chunk
\* gives more than one line, and a chunk that begins with the label Solution
\* is tagged Answer, never Explanation.
C14_FirstMatchingRuleWins ==
  (pc \in {"returned", "again"} /\ parser = "chunks") =>
    /\ Len(lines) <= Len(Chunks(text))
    /\ \A i \in 1..Len(lines) :
         LET tag == lines[i][1]
             t == LineText(lines[i])
         IN /\ tag \in RoleTags
            /\ tag = QuestionTag <=> IsQuestion(t)
            /\ tag = OptionTag <=> (~IsQuestion(t) /\ IsOption(t))
            /\ tag = AnswerTag <=>
                 (~IsQuestion(t) /\ ~IsOption(t) /\ IsAnswer(t))
            /\ tag = ExplanationTag <=>
                 (~IsQuestion(t) /\ ~IsOption(t) /\ ~IsAnswer(t)
                    /\ IsExplanation(t))
            /\ HasLabel(t, {SolutionWord}) => tag = AnswerTag

\* a chunk labelled Solution was classified, next to a line of another role
C14_Witness ==
  /\ pc = "returned"
  /\ parser = "chunks"
  /\ \E i \in 1..Len(lines) :
       lines[i][1] = AnswerTag /\ HasLabel(LineText(lines[i]), {SolutionWord})
  /\ \E i \in 1..Len(lines) : lines[i][1] = ExplanationTag

\* extraction of page k failed: the page did not load, or neither text
\* extraction returned
ExtractionFailed(k) ==
  \/ ~pdf.pages[k].loads
  \/ ~pdf.pages[k].structured.ok /\ ~pdf.pages[k].basic.ok

\* page k was extracted without failure and holds no text but white space
ExtractedBlank(k) ==
  /\ ~ExtractionFailed(k)
  /\ Trim((IF pdf.pages[k].structured.ok THEN pdf.pages[k].structured
           ELSE pdf.pages[k].basic).value) = <<>>

\* the notices owed for the first n pages, in page order
RECURSIVE FailureNotices(_)
FailureNotices(n) ==
  IF n = 0 THEN <<>>
  ELSE FailureNotices(n - 1) \o
         (IF ExtractionFailed(n) THEN <<PageErrorLine(n)>> ELSE <<>>)

IsNotice(line) == line[1] = WarnTag

\* C15: a page extracted without failure that holds no text adds no line and
\* no notice; the notices among the lines are exactly those of the pages whose
\* extraction failed.
C15_NoticeOnlyForFailedPage ==
  (pdf.opens /\ pc \in {"pages", "finally", "done"}) =>
    /\ SelectSeq(allTextLines, IsNotice) = FailureNotices(pageNum)
    /\ (\A k \in 1..pageNum : ExtractedBlank(k)) => allTextLines = <<>>
    /\ pc \in {"finally", "done"} => textLines = allTextLines

\* a blank page and a failed page were both processed: one notice, for the
\* failed page only
C15_Witness ==
  /\ pc = "done"
  /\ pdf.opens
  /\ Len(pdf.pages) = 2
  /\ ExtractedBlank(1)
  /\ ExtractionFailed(2)
  /\ textLines = <<PageErrorLine(2)>>

\* every call of a setter can be taken in the current state
SettersEnabled ==
  /\ \A dropped \in DropTexts : ENABLED handleQuestionDrop(dropped)
  /\ \A dropped \in DropTexts, optionIndex \in 1..4 :
       ENABLED handleOptionDrop(dropped, optionIndex)
  /\ \A i \in 1..4 : ENABLED handleAnswerChange(Letters[i])

\* the step was a setter and changed no field of the draft but its own
SetterKeepsOtherFields ==
  /\ lastOp' = "setStem" =>
       [currentQuestion' EXCEPT !.questionText = currentQuestion.questionText]
         = currentQuestion
  /\ lastOp' = "setOption" =>
       /\ [currentQuestion' EXCEPT
             !.option_with_images_ = currentQuestion.option_with_images_]
            = currentQuestion
       /\ Len(currentQuestion'.option_with_images_) = 4
       /\ Cardinality({i \in 1..4 : currentQuestion'.option_with_images_[i]
                                      # currentQuestion.option_with_images_[i]}) <= 1
  /\ lastOp' = "setAnswer" =>
       [currentQuestion' EXCEPT !.correct_answer = currentQuestion.correct_answer]
         = currentQuestion
  /\ lastOp' \in {"setStem", "setOption", "setAnswer"} =>
       questionsArray' = questionsArray

\* C16: the three setters can be called in every reachable state, each changes
\* only its own field of the draft (one option slot at most, four slots kept),
\* and none changes the draft's number or the committed list; the answer can
\* be set while its option is empty.
C16_SettersTotalAndFramed ==
  /\ []SettersEnabled
  /\ [][SetterKeepsOtherFields]_vars

\* the answer was set to a letter whose option is still empty, with a record
\* committed and another option of the draft filled
C16_Witness ==
  /\ lastOp = "setAnswer"
  /\ currentQuestion.correct_answer = "C"
  /\ currentQuestion.option_with_images_[3] = <<>>
  /\ currentQuestion.option_with_images_[1] = <<"x">>
  /\ Len(questionsArray) = 1

\* a commit of a committable draft adds that draft and leaves a draft that is
\* not committable; a commit that follows a commit adds nothing
CommitThenCommit ==
  /\ (lastOp' = "commit" /\ SpecCanCommit(currentQuestion)) =>
       /\ questionsArray' = Append(questionsArray, currentQuestion)
       /\ ~SpecCanCommit(currentQuestion')
       /\ ~canCommit(currentQuestion')
  /\ (lastOp = "commit" /\ lastOp' = "commit") =>
       questionsArray' = questionsArray

\* C17: right after a successful commit the new draft is not committable, so
\* commits issued with no setter call in between add one record in all: the
\* first adds the draft, every later one leaves the committed list as it is.
C17_RepeatedCommitAddsOne ==
  /\ [](lastOp = "commit" => ~canCommit(currentQuestion))
  /\ [][CommitThenCommit]_vars

\* a commit has just added the second record and left an empty draft
C17_Witness ==
  /\ lastOp = "commit"
  /\ Len(questionsArray) = 2
  /\ SpecCanCommit(questionsArray[2])
  /\ currentQuestion = EmptyQuestion(3)

\* C18: the Export JSON button can be clicked only while the committed list
\* is non-empty, so every export produced by a click begins with the committed
\* records, at least one of them: a committable draft is never exported alone.
C18_ClickExportNeedsCommitted ==
  /\ (ENABLED ClickExportJSON) <=> Len(questionsArray) > 0
  /\ lastOp = "exportClick" =>
       /\ Len(questionsArray) >= 1
       /\ IsPrefix(questionsArray, download)
       /\ download[1] = questionsArray[1]

\* a click exported one committed record together with a committable draft
C18_Witness ==
  /\ lastOp = "exportClick"
  /\ Len(questionsArray) = 1
  /\ canCommit(currentQuestion)
  /\ download = <<questionsArray[1], currentQuestion>>

----------------------------------------------------------------------------
(* Properties of the whole extraction *)

\* C19: every extraction that has started ends with the loading flag cleared,
\* whether every page succeeds, some pages fail, or the document cannot be
\* opened; no step of the extraction changes the draft or the committed list.
C19_ExtractionEndsNotLoading ==
  /\ (pc = "open" /\ isLoading) ~> (pc = "done" /\ ~isLoading)
  /\ [](pc = "done" => ~isLoading)
  /\ [][UNCHANGED <<currentQuestion, questionsArray>>]_vars

\* the document could not be opened and the extraction is over: the load
\* error is shown and nothing is loading
C19_Witness ==
  /\ pc = "done"
  /\ ~isLoading
  /\ ~pdf.opens
  /\ textLines = <<LoadErrorLine>>
  /\ currentQuestion = EmptyQuestion(1)

====
